---- MODULE Spec2Model ----
(***************************************************************************)
(* Model of the Noor MCP Code Assistant bridge (src/mcp_server.py,         *)
(* src/config.py): the tool catalog, the dispatch router and the two       *)
(* request handlers, each invocation being one asyncio task that runs      *)
(* atomically up to its HTTP await and atomically from the HTTP outcome    *)
(* to its result.                                                          *)
(*                                                                         *)
(* Texts (result texts, log messages) are sequences of string tokens: the  *)
(* literal fragments of the source's f-strings and the values put between  *)
(* them.  Caller strings that the code trims are sequences of characters.  *)
(***************************************************************************)
EXTENDS Integers, Sequences, FiniteSets, TLC

\* config: the Configuration singleton (its two enable flags; the other
\* settings keep their defaults).  listed: the last answer of list_tools().
\* calls: the invocations of call_tool, one per slot.
VARIABLES config, listed, calls

vars == <<config, listed, calls>>

(* ------------------------------ bounds -------------------------------- *)

\* Number of invocations that may be in flight at once under Spec.
MaxInv == 2
\* Longest caller message, in characters, under SpecWide.
MaxLen == 2
\* Largest chunks_count the remote service reports under SpecWide.
MaxChunks == 2

(* --------------------------- Configuration ---------------------------- *)

RAG_API_BASE_URL == "http://localhost:8900"
RAG_CHAT_ENDPOINT == "/api/chat/rag"
UNIVERSAL_RAG_ENDPOINT == "/api/chat/universal"
REQUEST_TIMEOUT == 120

rag_chat_url == RAG_API_BASE_URL \o RAG_CHAT_ENDPOINT
universal_rag_url == RAG_API_BASE_URL \o UNIVERSAL_RAG_ENDPOINT

\* str() of a Python float holding a whole number, as an f-string renders
\* config.REQUEST_TIMEOUT (float(os.getenv(...)): 120 is printed as 120.0).
FloatStr(n) == ToString(n) \o ".0"

(* ------------------------------ values -------------------------------- *)

\* An optional value: <<>> when the key is absent, <<v>> when it is there.
Absent == <<>>
Some(v) == <<v>>

SP == " "

\* A JSON value of an argument mapping: a string (its characters), or a
\* value of another JSON type (its Python type name).
StrVal(s) == [type |-> "str", chars |-> s]
IntVal == [type |-> "int", chars |-> <<"5">>]
NullVal == [type |-> "NoneType", chars |-> <<>>]

DEFAULT_SESSION_ID == StrVal(<<"claude-desktop-session">>)

IsSpace(c) == c = SP

RECURSIVE lstrip(_)
lstrip(s) == IF s # <<>> /\ IsSpace(Head(s)) THEN lstrip(Tail(s)) ELSE s

RECURSIVE rstrip(_)
rstrip(s) ==
    IF s # <<>> /\ IsSpace(s[Len(s)]) THEN rstrip(SubSeq(s, 1, Len(s) - 1)) ELSE s

\* Mutations of strip: no trimming at all; leading whitespace only.
strip_identity(s) == s
strip_left_only(s) == lstrip(s)

\* str.strip(): the string without its leading and trailing whitespace.
strip(s) == rstrip(lstrip(s))

\* dict.get(key, default) of an optional field.
Get(field, default) == IF field = Absent THEN default ELSE field[1]

\* sep.join(parts) where every part is a token sequence.
RECURSIVE Join(_, _)
Join(parts, sep) ==
    IF parts = <<>> THEN <<>>
    ELSE IF Len(parts) = 1 THEN parts[1]
    ELSE parts[1] \o sep \o Join(Tail(parts), sep)

Contains(text, tok) == \E k \in 1..Len(text) : text[k] = tok

EndsWith(text, sub) ==
    /\ Len(sub) <= Len(text)
    /\ \A j \in 1..Len(sub) : text[Len(text) - Len(sub) + j] = sub[j]

\* CallToolResult(content=[TextContent(type="text", text=...)], isError=...)
\* (isError defaults to False).
CallToolResult(text, isError) ==
    [content |-> <<[type |-> "text", text |-> text]>>, isError |-> isError]

LogEvent(level, msg) == [level |-> level, msg |-> msg]

(* ---------------------------- Tool Catalog ---------------------------- *)

ToolNames == <<"code_assistant", "universal_code_assistant">>

\* Mutation of list_tools: the flags are not consulted.
list_tools_unfiltered == ToolNames

\* The names of the Tool descriptors list_tools() returns, in order.
list_tools ==
    SelectSeq(ToolNames,
        LAMBDA t :
            ~ \/ (t = "code_assistant" /\ ~ config.ENABLE_DOTNET_RAG)
              \/ (t = "universal_code_assistant" /\ ~ config.ENABLE_UNIVERSAL_RAG))

(* ------------------------- Remote RAG response ------------------------ *)

\* The JSON object of a response body: every field optional.  chunks_count
\* is a JSON number or null.
IntJson(n) == [type |-> "int", n |-> n]
NullJson == [type |-> "NoneType", n |-> 0]

Data(ok, answer, sql, markdown, needs_clarification, chunks_count, language, error, message) ==
    [ok |-> ok, answer |-> answer, sql |-> sql, markdown |-> markdown,
     needs_clarification |-> needs_clarification, chunks_count |-> chunks_count,
     language |-> language, error |-> error, message |-> message]

\* What `await client.post(...)` ends in: an exception of the HTTP client
\* (exc is its class name, msg its str()), or a response with a status
\* code, a raw body text and, when that body is valid JSON, its value.
Raises(exc, msg) ==
    [kind |-> "raise", exc |-> exc, msg |-> msg, status_code |-> 0,
     text |-> "", json |-> Absent]
Response(status_code, text, json) ==
    [kind |-> "response", exc |-> "", msg |-> "", status_code |-> status_code,
     text |-> text, json |-> json]

\* The classes an exception of class exc is an instance of, among those the
\* except clauses name: httpx.ConnectError is a leaf; httpx.TimeoutException
\* is the base of ConnectTimeout, ReadTimeout, WriteTimeout and PoolTimeout;
\* httpx.HTTPStatusError is raised by raise_for_status() alone.
Bases(exc) ==
    CASE exc = "ConnectError" -> {"ConnectError", "Exception"}
      [] exc \in {"ConnectTimeout", "ReadTimeout", "WriteTimeout", "PoolTimeout"}
            -> {exc, "TimeoutException", "Exception"}
      [] exc = "HTTPStatusError" -> {"HTTPStatusError", "Exception"}
      [] OTHER -> {exc, "Exception"}

IsInstance(e, cls) == cls \in Bases(e.type)

\* An exception in flight: its class, its str(), and for HTTPStatusError
\* the response it carries.
Exc(type, msg) == [type |-> type, msg |-> msg, status_code |-> 0, text |-> ""]
StatusExc(status_code, text) ==
    [type |-> "HTTPStatusError", msg |-> "status error",
     status_code |-> status_code, text |-> text]
NoExc == Exc("", "")

\* Python truth value of an optional string field read with data.get(key).
Truthy(field) == field # Absent /\ field[1] # ""

\* str() of data.get('ok') inside an f-string.
PyStr(field) ==
    IF field = Absent THEN "None" ELSE IF field[1] THEN "True" ELSE "False"

\* SANY's lexer cannot hold a backquote inside a string: ''' stands for the
\* three backquotes of the Markdown code fence.
SQL_OPEN == "\n\n### Generated SQL\n'''sql\n"
SQL_CLOSE == "\n'''"

(* --------------------------- Request Handlers -------------------------- *)

\* A handler's progress: it returned a result, it raised an exception out of
\* the handler, or it is suspended at `await client.post(url, json=payload)`.
Returned(result, logs) ==
    [step |-> "return", result |-> Some(result), exc |-> NoExc,
     payload |-> Absent, url |-> "", logs |-> logs]
Raised(exc, logs) ==
    [step |-> "raise", result |-> Absent, exc |-> exc,
     payload |-> Absent, url |-> "", logs |-> logs]
Awaiting(url, payload, logs) ==
    [step |-> "await", result |-> Absent, exc |-> NoExc,
     payload |-> Some(payload), url |-> url, logs |-> logs]

\* arguments.get("message", "").strip(): an AttributeError when the value is
\* not a string.
StripError(v) ==
    Exc("AttributeError", "'" \o v.type \o "' object has no attribute 'strip'")

\* Mutation of handle_code_assistant: the session id is kept in a
\* module-level variable that overlapping invocations share, so a call that
\* starts while another one is suspended sends that one's session id.
handle_code_assistant_shared_session(arguments) ==
    LET raw == Get(arguments.message, StrVal(<<>>))
        message == strip(raw.chars)
        inflight == {i \in DOMAIN calls : calls[i].pc = "await"}
        session_id ==
            IF inflight # {}
              THEN calls[CHOOSE i \in inflight : TRUE].payload[1].session_id
              ELSE Get(arguments.session_id, DEFAULT_SESSION_ID)
        payload == [session_id |-> session_id, message |-> StrVal(message)]
    IN  IF raw.type # "str" THEN Raised(StripError(raw), <<>>)
        ELSE IF message = <<>> THEN
            Returned(CallToolResult(
                <<"Please provide a message/question for the code assistant.">>,
                TRUE), <<>>)
        ELSE Awaiting(rag_chat_url, payload,
                 <<LogEvent("INFO", <<"Calling RAG API: ", rag_chat_url>>)>>)

\* handle_code_assistant, from its call to its HTTP await.
handle_code_assistant(arguments) ==
    LET raw == Get(arguments.message, StrVal(<<>>))
        message == strip(raw.chars)
        session_id == Get(arguments.session_id, DEFAULT_SESSION_ID)
        payload == [session_id |-> session_id, message |-> StrVal(message)]
    IN  IF raw.type # "str" THEN Raised(StripError(raw), <<>>)
        ELSE IF message = <<>> THEN
            Returned(CallToolResult(
                <<"Please provide a message/question for the code assistant.">>,
                TRUE), <<>>)
        ELSE Awaiting(rag_chat_url, payload,
                 <<LogEvent("INFO", <<"Calling RAG API: ", rag_chat_url>>)>>)

\* handle_universal_code_assistant, from its call to its HTTP await.
handle_universal_code_assistant(arguments) ==
    LET raw == Get(arguments.message, StrVal(<<>>))
        message == strip(raw.chars)
        session_id == Get(arguments.session_id, DEFAULT_SESSION_ID)
        payload == [session_id |-> session_id, message |-> StrVal(message)]
    IN  IF raw.type # "str" THEN Raised(StripError(raw), <<>>)
        ELSE IF message = <<>> THEN
            Returned(CallToolResult(
                <<"Please provide a message/question for the universal code assistant.">>,
                TRUE), <<>>)
        ELSE Awaiting(universal_rag_url, payload,
                 <<LogEvent("INFO",
                     <<"Calling Universal RAG API: ", universal_rag_url>>)>>)

\* Mutation of is_success: raise_for_status() left out.
is_success_always(status_code) == TRUE

\* response.raise_for_status(): success is a 2xx status.
is_success(status_code) == status_code >= 200 /\ status_code <= 299

\* `chunks_count > 0` on a value that is not a number.
CompareError(v) ==
    Exc("TypeError",
        "'>' not supported between instances of '" \o v.type \o "' and 'int'")

JsonError == Exc("JSONDecodeError", "Expecting value: line 1 column 1 (char 0)")

\* The parts handle_code_assistant appends to result_parts, up to the footer.
code_assistant_parts(data) ==
       (IF Truthy(data.answer) THEN <<(<<data.answer[1]>>)>> ELSE <<>>)
    \o (IF Truthy(data.sql)
          THEN <<(<<SQL_OPEN, data.sql[1], SQL_CLOSE>>)>> ELSE <<>>)
    \o (IF Truthy(data.markdown)
          THEN <<(<<"\n\n", data.markdown[1]>>)>> ELSE <<>>)
    \o (IF Truthy(data.needs_clarification)
          THEN <<(<<"\n\n**Clarification Needed:** ",
                    data.needs_clarification[1]>>)>>
          ELSE <<>>)

\* Mutation of code_assistant_footer: the footer whatever the count.
code_assistant_footer_always(chunks_count) ==
    <<(<<"\n\n---\n*Context: ", ToString(chunks_count),
         " code chunks analyzed from your codebase*">>)>>

code_assistant_footer(chunks_count) ==
    IF chunks_count > 0
      THEN <<(<<"\n\n---\n*Context: ", ToString(chunks_count),
                " code chunks analyzed from your codebase*">>)>>
      ELSE <<>>

\* Mutation of code_assistant_error_msg: message looked up before error.
code_assistant_error_msg_message_first(data) ==
    IF Truthy(data.message) THEN data.message[1]
    ELSE IF Truthy(data.error) THEN data.error[1]
    ELSE "Unknown error from RAG API"

\* data.get("error") or data.get("message") or "Unknown error from RAG API"
code_assistant_error_msg(data) ==
    IF Truthy(data.error) THEN data.error[1]
    ELSE IF Truthy(data.message) THEN data.message[1]
    ELSE "Unknown error from RAG API"

\* The try block of handle_code_assistant from the resolution of the POST.
code_assistant_try(outcome) ==
    IF outcome.kind = "raise" THEN Raised(Exc(outcome.exc, outcome.msg), <<>>)
    ELSE IF ~ is_success(outcome.status_code)
      THEN Raised(StatusExc(outcome.status_code, outcome.text), <<>>)
    ELSE IF outcome.json = Absent THEN Raised(JsonError, <<>>)
    ELSE
      LET data == outcome.json[1]
          logs == <<LogEvent("INFO",
                      <<"RAG API response received, ok=", PyStr(data.ok)>>)>>
          chunks_count == Get(data.chunks_count, IntJson(0))
          result_parts ==
              code_assistant_parts(data) \o code_assistant_footer(chunks_count.n)
          final_response ==
              IF result_parts # <<>> THEN Join(result_parts, <<"\n">>)
              ELSE <<"No response from code assistant.">>
      IN  IF ~ Get(data.ok, FALSE)
            THEN Returned(CallToolResult(
                     <<"RAG API Error: ", code_assistant_error_msg(data)>>, TRUE),
                     logs)
          ELSE IF chunks_count.type # "int"
            THEN Raised(CompareError(chunks_count), logs)
          ELSE Returned(CallToolResult(final_response, FALSE), logs)

\* The except clauses of handle_code_assistant, in their order.
code_assistant_except(e, logs) ==
    IF IsInstance(e, "ConnectError") THEN
        Returned(CallToolResult(
            <<"Connection Error: Cannot reach RAG API at ", rag_chat_url, "\n\n",
              "Please ensure your Python RAG server is running:\n",
              "cd /path/to/your/rag-project\n",
              "source env_container/bin/activate\n",
              "uvicorn main:app --reload --port 8900">>, TRUE),
            logs \o <<LogEvent("ERROR", <<"Connection error to ", rag_chat_url>>)>>)
    ELSE IF IsInstance(e, "TimeoutException") THEN
        Returned(CallToolResult(
            <<"Request Timeout: The RAG API did not respond within ",
              FloatStr(REQUEST_TIMEOUT), " seconds.\n\n",
              "Try simplifying your question or increasing REQUEST_TIMEOUT in .env">>,
            TRUE),
            logs \o <<LogEvent("ERROR",
                        <<"Timeout after ", FloatStr(REQUEST_TIMEOUT), "s">>)>>)
    ELSE IF IsInstance(e, "HTTPStatusError") THEN
        Returned(CallToolResult(
            <<"HTTP Error ", ToString(e.status_code), ": ", e.text>>, TRUE),
            logs \o <<LogEvent("ERROR",
                        <<"HTTP error: ", ToString(e.status_code)>>)>>)
    ELSE
        Returned(CallToolResult(
            <<"Unexpected Error: ", e.type, ": ", e.msg>>, TRUE),
            logs \o <<LogEvent("ERROR", <<"Unexpected error: ", e.msg>>)>>)

\* handle_code_assistant, from the resolution of its POST to its return.
handle_code_assistant_resume(outcome) ==
    LET t == code_assistant_try(outcome)
    IN  IF t.step = "raise" THEN code_assistant_except(t.exc, t.logs) ELSE t

\* The parts handle_universal_code_assistant appends, up to the footer.
universal_parts(data) ==
       (IF Truthy(data.answer) THEN <<(<<data.answer[1]>>)>> ELSE <<>>)
    \o (IF Truthy(data.needs_clarification)
          THEN <<(<<"\n\n**Clarification Needed:** ",
                    data.needs_clarification[1]>>)>>
          ELSE <<>>)

universal_footer(chunks_count, language) ==
    IF chunks_count > 0
      THEN <<(<<"\n\n---\n*Context: ", ToString(chunks_count),
                " code chunks analyzed (", language, " codebase)*">>)>>
      ELSE <<>>

\* data.get("error") or data.get("message") or the fixed fallback
universal_error_msg(data) ==
    IF Truthy(data.error) THEN data.error[1]
    ELSE IF Truthy(data.message) THEN data.message[1]
    ELSE "Unknown error from Universal RAG API"

\* The try block of handle_universal_code_assistant from the resolution of
\* the POST.
universal_try(outcome) ==
    IF outcome.kind = "raise" THEN Raised(Exc(outcome.exc, outcome.msg), <<>>)
    ELSE IF ~ is_success(outcome.status_code)
      THEN Raised(StatusExc(outcome.status_code, outcome.text), <<>>)
    ELSE IF outcome.json = Absent THEN Raised(JsonError, <<>>)
    ELSE
      LET data == outcome.json[1]
          logs == <<LogEvent("INFO",
                      <<"Universal RAG API response received, ok=",
                        PyStr(data.ok)>>)>>
          chunks_count == Get(data.chunks_count, IntJson(0))
          language == Get(data.language, "unknown")
          result_parts ==
              universal_parts(data) \o universal_footer(chunks_count.n, language)
          final_response ==
              IF result_parts # <<>> THEN Join(result_parts, <<"\n">>)
              ELSE <<"No response from universal code assistant.">>
      IN  IF ~ Get(data.ok, FALSE)
            THEN Returned(CallToolResult(
                     <<"Universal RAG API Error: ", universal_error_msg(data)>>,
                     TRUE), logs)
          ELSE IF chunks_count.type # "int"
            THEN Raised(CompareError(chunks_count), logs)
          ELSE Returned(CallToolResult(final_response, FALSE), logs)

\* The except clauses of handle_universal_code_assistant, in their order:
\* the timeout and the status clauses write no log event.
universal_except(e, logs) ==
    IF IsInstance(e, "ConnectError") THEN
        Returned(CallToolResult(
            <<"Connection Error: Cannot reach Universal RAG API at ",
              universal_rag_url, "\n\n",
              "Please ensure your Python RAG server is running:\n",
              "uvicorn main:app --reload --port 8900">>, TRUE),
            logs \o <<LogEvent("ERROR",
                        <<"Connection error to ", universal_rag_url>>)>>)
    ELSE IF IsInstance(e, "TimeoutException") THEN
        Returned(CallToolResult(
            <<"Request Timeout: The Universal RAG API did not respond within ",
              FloatStr(REQUEST_TIMEOUT), " seconds.">>, TRUE),
            logs)
    ELSE IF IsInstance(e, "HTTPStatusError") THEN
        Returned(CallToolResult(
            <<"HTTP Error ", ToString(e.status_code), ": ", e.text>>, TRUE),
            logs)
    ELSE
        Returned(CallToolResult(
            <<"Unexpected Error: ", e.type, ": ", e.msg>>, TRUE),
            logs \o <<LogEvent("ERROR", <<"Unexpected error: ", e.msg>>)>>)

\* handle_universal_code_assistant, from the resolution of its POST to its
\* return.
handle_universal_code_assistant_resume(outcome) ==
    LET t == universal_try(outcome)
    IN  IF t.step = "raise" THEN universal_except(t.exc, t.logs) ELSE t

(* --------------------------- Dispatch Router --------------------------- *)

\* Mutation of handlers: every declared tool is dispatched.
handlers_unfiltered == ToolNames

\* The keys of the handlers dict call_tool builds, in insertion order.
handlers ==
       (IF config.ENABLE_DOTNET_RAG THEN <<"code_assistant">> ELSE <<>>)
    \o (IF config.ENABLE_UNIVERSAL_RAG THEN <<"universal_code_assistant">> ELSE <<>>)

\* handlers.get(name): the handler function's name, "" for None.
handlers_get(name) ==
    IF ~ Contains(handlers, name) THEN ""
    ELSE IF name = "code_assistant" THEN "handle_code_assistant"
    ELSE "handle_universal_code_assistant"

\* One invocation of call_tool: where it stands, the tool name and argument
\* mapping it was given, the handler it dispatched to, the payload and URL of
\* its POST, the number of POSTs it issued, the outcome of its POST, the
\* events it logged, its result, and the exception that left call_tool.
IdleCall ==
    [pc |-> "idle", name |-> "",
     arguments |-> [message |-> Absent, session_id |-> Absent],
     handler |-> "", payload |-> Absent, url |-> "", posts |-> 0,
     outcome |-> Absent, logs |-> <<>>, result |-> Absent, propagated |-> NoExc]

\* Mutation of call_tool_except: no try/except, the exception leaves
\* call_tool.
call_tool_no_boundary(c, name, e, logs) ==
    [c EXCEPT !.pc = "done", !.logs = logs, !.propagated = e]

\* `except Exception as e` of call_tool.
call_tool_except(c, name, e, logs) ==
    [c EXCEPT !.pc = "done",
              !.logs = logs \o <<LogEvent("ERROR",
                           <<"Error executing tool '", name, "': ", e.msg>>)>>,
              !.result = Some(CallToolResult(
                           <<"Error executing tool '", name, "': ", e.msg>>, TRUE))]

\* What call_tool does with the progress p of the handler it awaits.
call_tool_await(c, p, logs) ==
    IF p.step = "raise" THEN call_tool_except(c, c.name, p.exc, logs \o p.logs)
    ELSE IF p.step = "return"
      THEN [c EXCEPT !.pc = "done", !.logs = logs \o p.logs, !.result = p.result]
    ELSE [c EXCEPT !.pc = "await", !.logs = logs \o p.logs,
                   !.payload = p.payload, !.url = p.url, !.posts = @ + 1]

\* call_tool(name, arguments), from its call to the HTTP await of its
\* handler, or to its return when no POST is issued.
call_tool(name, arguments) ==
    LET c == [IdleCall EXCEPT !.name = name, !.arguments = arguments,
                              !.handler = handlers_get(name)]
        logs == <<LogEvent("INFO", <<"Tool called: ", name>>)>>
    IN  IF c.handler = "" THEN
            [c EXCEPT !.pc = "done", !.logs = logs,
                      !.result = Some(CallToolResult(
                          <<"Unknown tool: '", name, "'. Available tools: ">>
                          \o Join([k \in 1..Len(handlers) |-> <<handlers[k]>>],
                                  <<", ">>),
                          TRUE))]
        ELSE IF c.handler = "handle_code_assistant"
          THEN call_tool_await(c, handle_code_assistant(arguments), logs)
        ELSE call_tool_await(c, handle_universal_code_assistant(arguments), logs)

\* call_tool, from the resolution of its handler's POST to its return.
call_tool_resume(c, outcome) ==
    LET d == [c EXCEPT !.outcome = Some(outcome)]
    IN  IF c.handler = "handle_code_assistant"
          THEN call_tool_await(d, handle_code_assistant_resume(outcome), c.logs)
        ELSE call_tool_await(d, handle_universal_code_assistant_resume(outcome),
                             c.logs)

(* ------------------------------- inputs ------------------------------- *)

\* Tool names a client may send: the two declared ones and an undeclared one.
Names == {"code_assistant", "universal_code_assistant", "sql_agent"}

Strings(n) == UNION {[1..k -> {SP, "a"}] : k \in 0..n}

Arguments(messages, session_ids) ==
    {[message |-> m, session_id |-> s] : m \in messages, s \in session_ids}

\* Argument mappings under Spec: one message of each kind (missing, blank,
\* padded text, not a string), with and without a session id.
SomeArguments ==
    Arguments({Absent, Some(StrVal(<<SP, SP>>)), Some(StrVal(<<SP, "a", SP>>)),
               Some(IntVal)},
              {Absent, Some(StrVal(<<"s1">>))})

\* Argument mappings under SpecWide: every message of at most MaxLen
\* characters, a number, null; a session id with a leading blank, null.
AllArguments ==
    Arguments({Absent, Some(IntVal), Some(NullVal)}
                  \cup {Some(StrVal(s)) : s \in Strings(MaxLen)},
              {Absent, Some(StrVal(<<SP, "s1">>)), Some(NullVal)})

Opt(S) == {Absent} \cup {Some(v) : v \in S}

\* Bodies whose ok is false or absent.
FailureBodies ==
    {Data(ok, f, f, f, f, IF f = Absent THEN Absent ELSE Some(IntJson(1)), f,
          error, message) :
        ok \in {Absent, Some(FALSE)}, f \in {Absent, Some("X")},
        error \in Opt({"", "boom"}), message \in Opt({"", "why"})}

\* Bodies whose ok is true.
SuccessBodies ==
    {Data(Some(TRUE), answer, sql, markdown, needs_clarification, chunks_count,
          language, Absent, Absent) :
        answer \in Opt({"", "X"}), sql \in Opt({"", "S"}),
        markdown \in Opt({"M"}), needs_clarification \in Opt({"C"}),
        chunks_count \in Opt({NullJson} \cup {IntJson(n) : n \in -1..MaxChunks}),
        language \in Opt({"python"})}

PostFailures ==
    {Raises("ConnectError", "All connection attempts failed"),
     Raises("ConnectTimeout", ""), Raises("ReadTimeout", ""),
     Raises("ReadError", "connection reset")}

\* Outcomes of the POST under SpecWide.
AllOutcomes ==
    PostFailures
    \cup {Response(302, "", Absent), Response(404, "Not Found", Absent),
          Response(500, "{\"detail\": \"err\"}", Some(Data(Some(TRUE),
              Some("X"), Absent, Absent, Absent, Absent, Absent, Absent, Absent))),
          Response(200, "<html>", Absent), Response(204, "", Absent)}
    \cup {Response(200, "{...}", Some(d)) : d \in FailureBodies \cup SuccessBodies}

\* Outcomes of the POST under Spec: one of each class.
SomeOutcomes ==
    {Raises("ConnectError", "All connection attempts failed"),
     Raises("ConnectTimeout", ""), Raises("ReadError", "connection reset"),
     Response(500, "{\"ok\": false, \"error\": \"down\"}", Some(Data(Some(FALSE),
         Absent, Absent, Absent, Absent, Absent, Absent, Some("down"), Absent))),
     Response(200, "<html>", Absent),
     Response(200, "{...}", Some(Data(Some(FALSE), Absent, Absent, Absent, Absent,
         Absent, Absent, Some("boom"), Absent))),
     Response(200, "{...}", Some(Data(Some(TRUE), Some("X"), Absent, Absent, Absent,
         Some(IntJson(3)), Absent, Absent, Absent)))}

(* ------------------------------- actions ------------------------------ *)

\* The process starts: Config reads the two flags from the environment.
InitOver(slots) ==
    /\ config \in [ENABLE_DOTNET_RAG : BOOLEAN, ENABLE_UNIVERSAL_RAG : BOOLEAN]
    /\ listed = Absent
    /\ calls = [i \in slots |-> IdleCall]

\* The client asks for the tool catalog.
ListTools ==
    /\ listed' = Some(list_tools)
    /\ UNCHANGED <<config, calls>>

\* The transport delivers an invocation; it runs to its HTTP await or to
\* its return.
CallTool(i, name, arguments) ==
    /\ calls[i].pc = "idle"
    /\ calls' = [calls EXCEPT ![i] = call_tool(name, arguments)]
    /\ UNCHANGED <<config, listed>>

\* The POST of a suspended invocation resolves; the invocation runs to its
\* return.
HttpOutcome(i, outcome) ==
    /\ calls[i].pc = "await"
    /\ calls' = [calls EXCEPT ![i] = call_tool_resume(calls[i], outcome)]
    /\ UNCHANGED <<config, listed>>

\* The transport takes the outcome of a finished invocation; the slot is
\* free for the next one.
Return(i) ==
    /\ calls[i].pc = "done"
    /\ calls' = [calls EXCEPT ![i] = IdleCall]
    /\ UNCHANGED <<config, listed>>

NextOver(arguments, outcomes) ==
    \/ ListTools
    \/ \E i \in DOMAIN calls, name \in Names, a \in arguments : CallTool(i, name, a)
    \/ \E i \in DOMAIN calls, o \in outcomes : HttpOutcome(i, o)
    \/ \E i \in DOMAIN calls : Return(i)

\* Overlapping invocations, one input and one outcome of each kind.
Init == InitOver(1..MaxInv)
Next == NextOver(SomeArguments, SomeOutcomes)
Spec == Init /\ [][Next]_vars

\* One invocation at a time, every input and outcome within the bounds.
InitWide == InitOver({1})
NextWide == NextOver(AllArguments, AllOutcomes)
SpecWide == InitWide /\ [][NextWide]_vars

(* ------------------------------- claims ------------------------------- *)

Calls == {calls[i] : i \in DOMAIN calls}
Done == {c \in Calls : c.pc = "done"}
\* Finished invocations that were dispatched to a handler.
Handled == {c \in Done : c.handler # ""}
Text(c) == c.result[1].content[1].text

\* The enabled tool names in declaration order, flag by flag.
EnabledNames ==
    CASE config.ENABLE_DOTNET_RAG /\ config.ENABLE_UNIVERSAL_RAG
            -> <<"code_assistant", "universal_code_assistant">>
      [] config.ENABLE_DOTNET_RAG /\ ~ config.ENABLE_UNIVERSAL_RAG
            -> <<"code_assistant">>
      [] ~ config.ENABLE_DOTNET_RAG /\ config.ENABLE_UNIVERSAL_RAG
            -> <<"universal_code_assistant">>
      [] OTHER -> <<>>

\* C1: under each of the four flag combinations, list_tools() answers with
\* exactly the tools whose flag is true, code_assistant before
\* universal_code_assistant, and with the empty sequence when both are false.
C1_ListToolsMatchesFlags == listed # Absent => listed[1] = EnabledNames

C1_Witness ==
    /\ ~ config.ENABLE_DOTNET_RAG /\ ~ config.ENABLE_UNIVERSAL_RAG
    /\ listed = Some(<<>>)

\* C2: call_tool runs a handler exactly when the name is one list_tools()
\* returns under the same flags; for any other name no handler runs, no POST
\* is issued, and the error-flagged text names the attempted tool and then
\* exactly the enabled tool names, comma-separated.
C2_DispatchMatchesCatalog ==
    \A c \in Calls : c.pc # "idle" =>
        /\ c.handler # "" <=> Contains(EnabledNames, c.name)
        /\ c.handler = "" =>
              /\ c.pc = "done" /\ c.posts = 0 /\ c.payload = Absent
              /\ c.outcome = Absent /\ c.propagated = NoExc
              /\ c.result # Absent /\ c.result[1].isError
              /\ Len(Text(c)) = 3 + (IF EnabledNames = <<>> THEN 0
                                     ELSE 2 * Len(EnabledNames) - 1)
              /\ Text(c)[1] = "Unknown tool: '" /\ Text(c)[2] = c.name
              /\ Text(c)[3] = "'. Available tools: "
              /\ \A k \in 1..Len(EnabledNames) :
                    /\ Text(c)[2 + 2 * k] = EnabledNames[k]
                    /\ k > 1 => Text(c)[1 + 2 * k] = ", "

C2_Witness ==
    /\ ~ config.ENABLE_DOTNET_RAG /\ config.ENABLE_UNIVERSAL_RAG
    /\ \E c \in Done :
          /\ c.name = "code_assistant" /\ c.handler = ""
          /\ Text(c) = <<"Unknown tool: '", "code_assistant",
                         "'. Available tools: ", "universal_code_assistant">>

\* A caller message that holds nothing but whitespace.
Blank(v) == v.type = "str" /\ \A k \in 1..Len(v.chars) : v.chars[k] = SP
MissingOrBlank(c) == c.arguments.message = Absent \/ Blank(c.arguments.message[1])
NotAString(c) ==
    c.arguments.message # Absent /\ c.arguments.message[1].type # "str"

ValidationTexts ==
    {<<"Please provide a message/question for the code assistant.">>,
     <<"Please provide a message/question for the universal code assistant.">>}
IsValidationResult(c) ==
    /\ c.result # Absent /\ c.result[1].isError /\ Text(c) \in ValidationTexts

\* C3 as stated: a handler invocation issues no POST when its message is
\* missing or blank (and answers with the validation error), and exactly one
\* POST in every other case.
C3_OnePostUnlessBlank ==
    \A c \in Handled :
        IF MissingOrBlank(c) THEN c.posts = 0 /\ IsValidationResult(c)
        ELSE c.posts = 1

\* C3, amended: no POST when the message is missing or blank (validation
\* error) or is not a string (the handler raises before sending, and call_tool
\* reports the error); exactly one POST when the message is a string with a
\* non-blank character; no invocation, suspended or finished, whatever its
\* POST ended in, ever counts a second POST.
C3_OnePostForTextMessages ==
    /\ \A c \in Calls : c.posts <= 1 /\ (c.pc = "await" => c.posts = 1)
    /\ \A c \in Handled :
          /\ MissingOrBlank(c) => c.posts = 0 /\ IsValidationResult(c)
          /\ NotAString(c) =>
                /\ c.posts = 0 /\ c.result # Absent /\ c.result[1].isError
                /\ Text(c)[1] = "Error executing tool '"
          /\ ~ MissingOrBlank(c) /\ ~ NotAString(c) =>
                c.posts = 1 /\ c.outcome # Absent

\* A finished invocation whose only POST failed to connect, beside another
\* one that was refused for its blank message.
C3_Witness ==
    /\ \E c \in Handled :
          /\ c.posts = 1 /\ c.outcome[1].exc = "ConnectError"
          /\ c.result[1].isError
    /\ \E c \in Handled :
          /\ c.arguments.message = Some(StrVal(<<SP, SP>>)) /\ c.posts = 0

\* The caller's session id, or Configuration's default when it is omitted.
SessionOf(c) ==
    IF c.arguments.session_id = Absent THEN DEFAULT_SESSION_ID
    ELSE c.arguments.session_id[1]

\* t is s without its leading and trailing whitespace.
IsTrimOf(s, t) ==
    \E i \in 1..(Len(s) + 1) : \E j \in 0..Len(s) :
        /\ t = SubSeq(s, i, j)
        /\ \A k \in 1..Len(s) : (k < i \/ k > j) => s[k] = SP
        /\ t # <<>> => t[1] # SP /\ t[Len(t)] # SP

Posted == {c \in Calls : c.payload # Absent}

\* C4 as stated: the payload of the POST is exactly {session_id, message}
\* with the two values as the caller supplied them (the default session id
\* when none was given).
C4_PayloadEqualsCallerValues ==
    \A c \in Posted :
        c.payload[1] = [session_id |-> SessionOf(c),
                        message |-> c.arguments.message[1]]

\* C4, amended: the payload holds exactly the two fields session_id and
\* message; session_id is the caller's value unchanged (the default session
\* id when omitted); message is the caller's message without its leading and
\* trailing whitespace; every valid message is posted so.
C4_PayloadIsTrimmedMessage ==
    /\ \A c \in Posted :
          /\ DOMAIN c.payload[1] = {"session_id", "message"}
          /\ c.payload[1].session_id = SessionOf(c)
          /\ c.arguments.message # Absent
          /\ c.arguments.message[1].type = "str"
          /\ c.payload[1].message.type = "str"
          /\ c.payload[1].message.chars # <<>>
          /\ IsTrimOf(c.arguments.message[1].chars, c.payload[1].message.chars)
          /\ c.url = (IF c.name = "code_assistant" THEN rag_chat_url
                      ELSE universal_rag_url)
    /\ \A c \in Calls :
          (c.pc # "idle" /\ c.handler # "" /\ ~ MissingOrBlank(c) /\ ~ NotAString(c))
              => c \in Posted

\* A padded message, sent without a session id, posted trimmed under the
\* default session id.
C4_Witness ==
    \E c \in Posted :
        /\ c.arguments.message = Some(StrVal(<<"a", SP>>))
        /\ c.arguments.session_id = Absent
        /\ c.payload[1] = [session_id |-> StrVal(<<"claude-desktop-session">>),
                           message |-> StrVal(<<"a">>)]

\* The POST of c was answered 2xx with a JSON object.
HasBody(c) ==
    /\ c.outcome # Absent /\ c.outcome[1].kind = "response"
    /\ c.outcome[1].status_code \in 200..299 /\ c.outcome[1].json # Absent
Body(c) == c.outcome[1].json[1]
\* ... whose ok is true and whose chunks_count, if any, is an integer.
Succeeded(c) ==
    /\ HasBody(c) /\ Body(c).ok = Some(TRUE)
    /\ Body(c).chunks_count # Some(NullJson)

\* C5: every finished call_tool, whatever the name, the arguments and the
\* outcome of the POST or of the parsing, holds a result of exactly one text
\* block and no exception leaves call_tool; the result is error-flagged
\* unless the remote service answered 2xx with ok true; an exception raised
\* by a handler (a message that is not a string) is reported as
\* "Error executing tool '<name>': <message>".
C5_CallToolIsTheBoundary ==
    \A c \in Done :
        /\ c.propagated = NoExc
        /\ c.result # Absent
        /\ Len(c.result[1].content) = 1
        /\ c.result[1].content[1].type = "text"
        /\ c.result[1].isError <=> ~ Succeeded(c)
        /\ (c.handler # "" /\ NotAString(c)) =>
              Text(c) = <<"Error executing tool '", c.name, "': ",
                          "'" \o c.arguments.message[1].type
                              \o "' object has no attribute 'strip'">>

\* A handler raised on a null message and call_tool reported it.
C5_Witness ==
    \E c \in Done :
        /\ c.arguments.message = Some(NullVal)
        /\ c.result[1].isError
        /\ Text(c) = <<"Error executing tool '", "code_assistant", "': ",
                       "'NoneType' object has no attribute 'strip'">>

\* Finished invocations whose 2xx JSON body has ok false or absent.
Refused == {c \in Done : HasBody(c) /\ Body(c).ok # Some(TRUE)}

Label(c) ==
    IF c.name = "code_assistant" THEN "RAG API Error: "
    ELSE "Universal RAG API Error: "
Fallback(c) ==
    IF c.name = "code_assistant" THEN "Unknown error from RAG API"
    ELSE "Unknown error from Universal RAG API"

\* C6 as stated: on ok false or absent the result is error-flagged and its
\* text is the handler's label followed by the error field if present, else
\* the message field if present, else the handler's fallback.
C6_ErrorFieldIfPresent ==
    \A c \in Refused :
        /\ c.result[1].isError
        /\ Text(c) = <<Label(c),
                       IF Body(c).error # Absent THEN Body(c).error[1]
                       ELSE IF Body(c).message # Absent THEN Body(c).message[1]
                       ELSE Fallback(c)>>

NonEmpty(field) == field \notin {Absent, Some("")}

\* C6, amended: ... followed by the error field if present and not empty,
\* else the message field if present and not empty, else the handler's
\* fallback; the text holds nothing else (no answer, sql, markdown,
\* clarification or footer).
C6_ErrorFieldIfNonEmpty ==
    \A c \in Refused :
        /\ c.result[1].isError
        /\ Len(Text(c)) = 2
        /\ Text(c)[1] = Label(c)
        /\ Text(c)[2] = (IF NonEmpty(Body(c).error) THEN Body(c).error[1]
                         ELSE IF NonEmpty(Body(c).message) THEN Body(c).message[1]
                         ELSE Fallback(c))

\* An empty error field beside a message field: the message is reported,
\* and the answer the body also carries is not.
C6_Witness ==
    \E c \in Refused :
        /\ Body(c).error = Some("") /\ Body(c).message = Some("why")
        /\ Body(c).answer = Some("X")
        /\ Text(c) = <<"Universal RAG API Error: ", "why">>

IsCode(c) == c.name = "code_assistant"
Chunks(c) == IF Body(c).chunks_count = Absent THEN 0 ELSE Body(c).chunks_count[1].n

Footer(c) ==
    IF IsCode(c)
      THEN <<"\n\n---\n*Context: ", ToString(Chunks(c)),
             " code chunks analyzed from your codebase*">>
      ELSE <<"\n\n---\n*Context: ", ToString(Chunks(c)), " code chunks analyzed (",
             IF Body(c).language = Absent THEN "unknown" ELSE Body(c).language[1],
             " codebase)*">>

\* The five parts in their fixed order, each with the condition under which
\* it is produced (a text field produces its part when it is present and not
\* empty; sql and markdown only for code_assistant).
Sections(c) ==
    <<[on |-> NonEmpty(Body(c).answer), text |-> <<Get(Body(c).answer, "")>>],
      [on |-> IsCode(c) /\ NonEmpty(Body(c).sql),
       text |-> <<SQL_OPEN, Get(Body(c).sql, ""), SQL_CLOSE>>],
      [on |-> IsCode(c) /\ NonEmpty(Body(c).markdown),
       text |-> <<"\n\n", Get(Body(c).markdown, "")>>],
      [on |-> NonEmpty(Body(c).needs_clarification),
       text |-> <<"\n\n**Clarification Needed:** ",
                  Get(Body(c).needs_clarification, "")>>],
      [on |-> Chunks(c) > 0, text |-> Footer(c)]>>

Produced(c) == SelectSeq(Sections(c), LAMBDA x : x.on)

Timeouts == {"ConnectTimeout", "ReadTimeout", "WriteTimeout", "PoolTimeout"}

\* Finished handler invocations whose HTTP call failed: the POST raised,
\* the status was not 2xx, or the body was not JSON.
Failed ==
    {c \in Handled : c.outcome # Absent /\ ~ HasBody(c)}

FailureClass(c) ==
    LET o == c.outcome[1]
    IN  CASE o.kind = "raise" /\ o.exc = "ConnectError" -> "connection"
          [] o.kind = "raise" /\ o.exc \in Timeouts -> "timeout"
          [] o.kind = "response" /\ o.status_code \notin 200..299 -> "status"
          [] OTHER -> "unexpected"

UrlOf(c) ==
    IF c.name = "code_assistant" THEN "http://localhost:8900/api/chat/rag"
    ELSE "http://localhost:8900/api/chat/universal"

\* C8: every failed HTTP call yields one error-flagged text block of its own
\* class: connection failure (the handler's full URL and the guidance for
\* starting the server), timeout, non-2xx status (status code and raw body,
\* never the ok-false or the success text), any other error (type name and
\* message); two failures of different classes of one handler never share a
\* text.
C8_FourFailureClasses ==
    /\ \A c \in Failed :
          /\ c.result # Absent /\ c.result[1].isError
          /\ Len(c.result[1].content) = 1
          /\ c.posts = 1
          /\ CASE FailureClass(c) = "connection" ->
                    /\ Contains(Text(c), UrlOf(c))
                    /\ Contains(Text(c),
                           "Please ensure your Python RAG server is running:\n")
                    /\ Contains(Text(c), "uvicorn main:app --reload --port 8900")
               [] FailureClass(c) = "timeout" ->
                    \E k \in 1..Len(Text(c)) :
                        Text(c)[k] \in
                          {"Request Timeout: The RAG API did not respond within ",
                           "Request Timeout: The Universal RAG API did not respond within "}
               [] FailureClass(c) = "status" ->
                    Text(c) = <<"HTTP Error ", ToString(c.outcome[1].status_code),
                                ": ", c.outcome[1].text>>
               [] OTHER ->
                    /\ Len(Text(c)) = 4 /\ Text(c)[1] = "Unexpected Error: "
                    /\ c.outcome[1].kind = "raise" =>
                          /\ Text(c)[2] = c.outcome[1].exc
                          /\ Text(c)[4] = c.outcome[1].msg
                    /\ c.outcome[1].kind = "response" =>
                          Text(c)[2] = "JSONDecodeError"
    /\ \A c, d \in Failed :
          (c.name = d.name /\ FailureClass(c) # FailureClass(d))
              => Text(c) # Text(d)

\* Two overlapping invocations of one handler: a 500 answer whose JSON body
\* says ok false, reported by status and raw body, beside a failed connection.
C8_Witness ==
    \E c, d \in Failed :
        /\ c.name = "code_assistant" /\ d.name = "code_assistant"
        /\ FailureClass(c) = "status" /\ c.outcome[1].json # Absent
        /\ Text(c) = <<"HTTP Error ", "500", ": ",
                       "{\"ok\": false, \"error\": \"down\"}">>
        /\ FailureClass(d) = "connection"
        /\ Contains(Text(d), "http://localhost:8900/api/chat/rag")

\* C9: when the POST times out, the error-flagged text of either handler
\* names the configured timeout value and advises simplifying the request or
\* raising the timeout setting.
C9_TimeoutTextNamesValueAndAdvice ==
    \A c \in Failed : FailureClass(c) = "timeout" =>
        /\ c.result[1].isError
        /\ Contains(Text(c), "120.0")
        /\ Contains(Text(c),
               "Try simplifying your question or increasing REQUEST_TIMEOUT in .env")

\* C10: in either handler, every failed HTTP call has written an ERROR event
\* to the log by the time its error result is returned.
C10_FailureLoggedBeforeReturn ==
    \A c \in Failed :
        /\ c.result # Absent /\ c.result[1].isError
        /\ \E k \in 1..Len(c.logs) : c.logs[k].level = "ERROR"

\* The payload and URL of invocation c follow from its own tool name and
\* arguments.
OwnPayload(c) ==
    c.payload # Absent =>
        /\ c.payload[1].session_id = SessionOf(c)
        /\ IsTrimOf(c.arguments.message[1].chars, c.payload[1].message.chars)
        /\ c.url = UrlOf(c)

\* Invocations c and d were given the same tool name and arguments, stand
\* at the same position and saw the same HTTP outcome.
SameInputs(c, d) ==
    /\ c.name = d.name /\ c.arguments = d.arguments
    /\ c.pc = d.pc /\ c.outcome = d.outcome

\* A step of invocation i leaves every other invocation as it was, and
\* leaves its own tool name, arguments and sent payload as they were while
\* it is in progress.
OthersUntouched(i) ==
    /\ \A j \in DOMAIN calls \ {i} : calls'[j] = calls[j]
    /\ calls[i].pc = "await" =>
          /\ calls'[i].name = calls[i].name
          /\ calls'[i].arguments = calls[i].arguments
          /\ calls'[i].payload = calls[i].payload
          /\ calls'[i].url = calls[i].url

\* After its step, invocation i is the same in everything (payload, POST
\* count, log events, result) as any other invocation with the same inputs,
\* whatever ran before or beside either.
OwnInputsOnly(i) ==
    /\ OwnPayload(calls'[i])
    /\ \A j \in DOMAIN calls \ {i} :
          SameInputs(calls'[i], calls'[j]) => calls'[i] = calls'[j]

\* C11: under every interleaving of overlapping invocations and after any
\* earlier ones, no step writes Configuration, a step of one invocation
\* touches no other invocation, and each invocation's payload and result
\* are determined by its own tool name, arguments and HTTP outcome alone.
C11_InvocationsAreIndependent ==
    [][/\ config' = config
       /\ \A i \in DOMAIN calls : calls'[i] # calls[i] =>
              OthersUntouched(i) /\ OwnInputsOnly(i)]_vars

\* Two overlapping invocations of one tool with the same arguments and so
\* the same payload, whose POSTs ended differently: each holds the result of
\* its own outcome.
C11_Witness ==
    \E i, j \in DOMAIN calls :
        /\ i # j
        /\ calls[i].pc = "done" /\ calls[j].pc = "done"
        /\ calls[i].name = calls[j].name
        /\ calls[i].arguments = calls[j].arguments
        /\ calls[i].payload # Absent /\ calls[i].payload = calls[j].payload
        /\ calls[i].outcome[1].exc = "ConnectError"
        /\ HasBody(calls[j]) /\ ~ calls[j].result[1].isError
        /\ calls[i].result[1].isError

====
